---- MODULE Spec2Model ----
(***************************************************************************)
(* Fee quotation plugin: the quotation records, the per-journal            *)
(* configuration, the quotation service (logic.py), the webhook handler    *)
(* (views.py) and the staleness hook (hooks.py), as a state machine.       *)
(* Every handler is one action: it runs to completion on the stored rows.  *)
(***************************************************************************)
EXTENDS Integers, Sequences, FiniteSets, TLC

VARIABLES quots, cfg, now, modified, last, calls, rnd, art

vars == <<quots, cfg, now, modified, last, calls, rnd, art>>

-----------------------------------------------------------------------------
(* Bounds of the model. *)

MaxQuots == 2
MaxTime == 1

-----------------------------------------------------------------------------
(* Host data: journals, articles, their owners and sections. *)

Journals == {"J1", "J2"}
JournalCodes == Journals \cup {"JX"}
Articles == {"a1", "a2"}
ArticleJournal == [a \in Articles |-> IF a = "a1" THEN "J1" ELSE "J2"]
ArticleOwner == [a \in Articles |-> IF a = "a1" THEN "u1" ELSE "u2"]
NoSection == "<none>"
ArticleSection == [a \in Articles |-> IF a = "a1" THEN "S1" ELSE NoSection]

(* Python None for text fields and for timestamps. *)
None == "<None>"
NoTime == -1

-----------------------------------------------------------------------------
(* FeeQuotationStatus *)

PENDING == "pending"
REQUESTED == "requested"
PRESENTED == "presented"
ACCEPTED == "accepted"
DECLINED == "declined"
ERROR == "error"
EXPIRED == "expired"
VOIDED == "voided"

-----------------------------------------------------------------------------
(* JSON values, as json.loads produces them. *)

JAbsent == [t |-> "absent"]
JNull == [t |-> "null"]
JStr(s) == [t |-> "str", s |-> s]
JNum(n) == [t |-> "num", n |-> n]
JArr(n) == [t |-> "arr", len |-> n]
JObj(f) == [t |-> "obj", f |-> f]
NoJson == [t |-> "none"]

(* Python truthiness of a parsed value. *)
Truthy(v) ==
    CASE v.t = "str" -> v.s # ""
      [] v.t = "num" -> v.n # 0
      [] v.t = "arr" -> v.len # 0
      [] v.t = "obj" -> DOMAIN v.f # {}
      [] OTHER -> FALSE

(* str(value) for the values the model uses as quote ids. *)
PyStr(v) ==
    CASE v.t = "str" -> v.s
      [] v.t = "num" -> ToString(v.n)
      [] OTHER -> "<repr>"

(* dict.get(key) on a parsed object: the value, or absent. *)
DictGet(obj, key) == IF key \in DOMAIN obj.f THEN obj.f[key] ELSE JAbsent

-----------------------------------------------------------------------------
(* FeeQuotationConfiguration *)

NoConfig == [exists |-> FALSE]

QUOTE_ID_PLACEHOLDER == "{{quote_id}}"

(* A URL template is the sequence of its pieces; <<>> is the empty text. *)
NoTemplate == <<>>

Form(e, u, t, p, r, m, s) ==
    [is_enabled |-> e, api_url |-> u, quotation_url_template |-> t,
     response_quote_id_field |-> p, require_acceptance |-> r,
     section_mode |-> m, selected_sections |-> s]

(* The field defaults of the model class. *)
DefaultForm == Form(FALSE, "", NoTemplate, "quote_id", TRUE, "all", {})

(* The forms an editor submits in the model. *)
ConfigForms ==
    { Form(TRUE, "https://api", <<"https://x/", QUOTE_ID_PLACEHOLDER>>,
           "quote_id", TRUE, "all", {}),
      Form(TRUE, "https://api", NoTemplate, "data.quote_id", FALSE, "all", {}),
      Form(TRUE, "", NoTemplate, "quote_id", TRUE, "exclude", {"S1"}),
      Form(FALSE, "https://api", <<"https://x/", QUOTE_ID_PLACEHOLDER>>,
           "quote_id", TRUE, "include", {"S1"}) }

Secrets == {"s1", "s2"}

Config(form, secret) ==
    [exists |-> TRUE, is_enabled |-> form.is_enabled, api_url |-> form.api_url,
     quotation_url_template |-> form.quotation_url_template,
     response_quote_id_field |-> form.response_quote_id_field,
     require_acceptance |-> form.require_acceptance,
     section_mode |-> form.section_mode,
     selected_sections |-> form.selected_sections,
     webhook_secret |-> secret]

(* A variant of requires_quotation_for_section that requires a quotation  *)
(* for an article without a section under every mode.                     *)
requires_quotation_for_section_AbsentRequired(config, section) ==
    IF ~config.is_enabled THEN FALSE
    ELSE IF section = NoSection THEN TRUE
    ELSE IF config.section_mode = "all" THEN TRUE
    ELSE IF config.section_mode = "include" THEN section \in config.selected_sections
    ELSE IF config.section_mode = "exclude" THEN section \notin config.selected_sections
    ELSE TRUE

requires_quotation_for_section(config, section) ==
    IF ~config.is_enabled THEN FALSE
    ELSE IF section = NoSection THEN config.section_mode = "all"
    ELSE IF config.section_mode = "all" THEN TRUE
    ELSE IF config.section_mode = "include" THEN section \in config.selected_sections
    ELSE IF config.section_mode = "exclude" THEN section \notin config.selected_sections
    ELSE TRUE

is_quotation_required_for_article(c, article) ==
    IF ~c[ArticleJournal[article]].exists THEN FALSE
    ELSE IF ~c[ArticleJournal[article]].is_enabled THEN FALSE
    ELSE requires_quotation_for_section(c[ArticleJournal[article]],
                                        ArticleSection[article])

-----------------------------------------------------------------------------
(* FeeQuotation rows.  quots is the table in primary-key order. *)

NewQuotation(article, author, t) ==
    [article |-> article, author |-> author, status |-> PENDING,
     external_quote_id |-> None, quotation_url |-> None,
     api_response |-> NoJson, error_message |-> None,
     webhook_received_at |-> NoTime, webhook_payload |-> NoJson,
     created |-> t, updated |-> t, expires_at |-> NoTime]

Pks(qs) == 1..Len(qs)

is_expired(q, t) == IF q.expires_at # NoTime THEN t > q.expires_at ELSE FALSE

is_accepted(q) == q.status = ACCEPTED

(* save(): every field of the in-memory row is written, updated is auto_now. *)
Save(qs, pk, q, t) == [qs EXCEPT ![pk] = [q EXCEPT !.updated = t]]

(* A variant of mark_accepted that also restarts the expiry of the row. *)
mark_accepted_RestartsExpiry(q, webhook_payload, t) ==
    [q EXCEPT !.status = ACCEPTED,
              !.webhook_received_at = t,
              !.expires_at = t,
              !.webhook_payload = IF Truthy(webhook_payload)
                                  THEN webhook_payload ELSE @]

mark_accepted(q, webhook_payload, t) ==
    [q EXCEPT !.status = ACCEPTED,
              !.webhook_received_at = t,
              !.webhook_payload = IF Truthy(webhook_payload)
                                  THEN webhook_payload ELSE @]

(* A variant of mark_declined that writes the status column alone. *)
mark_declined_StatusOnly(q, webhook_payload, t) ==
    [q EXCEPT !.status = DECLINED]

mark_declined(q, webhook_payload, t) ==
    [q EXCEPT !.status = DECLINED,
              !.webhook_received_at = t,
              !.webhook_payload = IF Truthy(webhook_payload)
                                  THEN webhook_payload ELSE @]

mark_error(q, error_message) ==
    [q EXCEPT !.status = ERROR, !.error_message = error_message]

mark_voided(q, reason) ==
    [q EXCEPT !.status = VOIDED,
              !.error_message = IF reason # None /\ reason # "" THEN reason ELSE @]

(* order_by("-created").first() over a set of primary keys; 0 when empty. *)
FirstByCreatedDesc(qs, S) ==
    IF S = {} THEN 0
    ELSE CHOOSE pk \in S : \A o \in S :
            \/ qs[o].created < qs[pk].created
            \/ (qs[o].created = qs[pk].created /\ o <= pk)

-----------------------------------------------------------------------------
(* logic.py: the quotation service. *)

(* A variant of the reusable statuses that leaves presented out. *)
ReusableStatuses_NoPresented == {PENDING, REQUESTED, ACCEPTED}

ReusableStatuses == {PENDING, REQUESTED, PRESENTED, ACCEPTED}

(* A variant of get_or_create that never looks for an existing row. *)
get_or_create_quotation_AlwaysCreates(qs, article, author, t) ==
    [qs |-> Append(qs, [article |-> article, author |-> author, status |-> PENDING,
                        external_quote_id |-> None, quotation_url |-> None,
                        api_response |-> NoJson, error_message |-> None,
                        webhook_received_at |-> NoTime, webhook_payload |-> NoJson,
                        created |-> t, updated |-> t, expires_at |-> NoTime]),
     pk |-> Len(qs) + 1, created |-> TRUE]

(* A variant of get_or_create that stores the status expired on the row   *)
(* it skips.                                                               *)
get_or_create_quotation_MarksExpired(qs, article, author, t) ==
    LET existing == FirstByCreatedDesc(qs,
                      {pk \in Pks(qs) : /\ qs[pk].article = article
                                        /\ qs[pk].author = author
                                        /\ qs[pk].status \in ReusableStatuses})
    IN  IF existing # 0 /\ ~is_expired(qs[existing], t)
        THEN [qs |-> qs, pk |-> existing, created |-> FALSE]
        ELSE [qs |-> Append(IF existing # 0
                            THEN [qs EXCEPT ![existing].status = EXPIRED] ELSE qs,
                            NewQuotation(article, author, t)),
              pk |-> Len(qs) + 1, created |-> TRUE]

(* The row the call resolves to, the table after it, and whether it created. *)
get_or_create_quotation(qs, article, author, t) ==
    LET existing == FirstByCreatedDesc(qs,
                      {pk \in Pks(qs) : /\ qs[pk].article = article
                                        /\ qs[pk].author = author
                                        /\ qs[pk].status \in ReusableStatuses})
    IN  IF existing # 0 /\ ~is_expired(qs[existing], t)
        THEN [qs |-> qs, pk |-> existing, created |-> FALSE]
        ELSE [qs |-> Append(qs, NewQuotation(article, author, t)),
              pk |-> Len(qs) + 1, created |-> TRUE]

(* str.split(".") on the field paths a configuration can hold. *)
Split(field_path) ==
    CASE field_path = "quote_id" -> <<"quote_id">>
      [] field_path = "data.quote_id" -> <<"data", "quote_id">>
      [] OTHER -> <<field_path>>

RECURSIVE Walk(_, _)
Walk(current, parts) ==
    IF parts = <<>> THEN current
    ELSE IF current.t = "obj" /\ Head(parts) \in DOMAIN current.f
         THEN Walk(current.f[Head(parts)], Tail(parts))
         ELSE JAbsent

(* A variant of get_nested_value that looks the whole path up as one key. *)
get_nested_value_TopLevelOnly(data, field_path) ==
    IF field_path = "" \/ ~Truthy(data) THEN JAbsent
    ELSE IF data.t = "obj" /\ field_path \in DOMAIN data.f THEN data.f[field_path]
    ELSE JAbsent

get_nested_value(data, field_path) ==
    IF field_path = "" \/ ~Truthy(data) THEN JAbsent
    ELSE Walk(data, Split(field_path))

(* str.replace of the placeholder in every piece of the template. *)
RECURSIVE Replace(_, _, _)
Replace(template, placeholder, value) ==
    IF template = <<>> THEN ""
    ELSE (IF Head(template) = placeholder THEN value ELSE Head(template))
         \o Replace(Tail(template), placeholder, value)

build_quotation_url(config, quote_id) ==
    IF config.quotation_url_template = NoTemplate \/ ~Truthy(quote_id) THEN None
    ELSE Replace(config.quotation_url_template, QUOTE_ID_PLACEHOLDER, PyStr(quote_id))

(* a or b or c or d: the first truthy operand, else the last one. *)
FallbackUrl(response_data) ==
    LET u1 == get_nested_value(response_data, "url")
        u2 == get_nested_value(response_data, "quotation_url")
        u3 == get_nested_value(response_data, "redirect_url")
        u4 == get_nested_value(response_data, "quote_url")
    IN  IF Truthy(u1) THEN u1 ELSE IF Truthy(u2) THEN u2
        ELSE IF Truthy(u3) THEN u3 ELSE u4

(* What happens to one request after the configuration checks: the        *)
(* rendered body fails to parse, the stored api_headers text parses to a   *)
(* JSON value that is not an object (headers.update raises), the call      *)
(* times out, fails in transport or with a 4xx/5xx status (raise_for_status*)
(* raises only for 400..599), answers with a body that is not JSON, or     *)
(* answers with parsed JSON under a status below 400.                      *)
ApiResponses ==
    { JObj([data |-> JObj([quote_id |-> JStr("Q1")])]),
      JObj([data |-> JObj([quote_id |-> JStr("Q2")]), url |-> JStr("https://u/2")]),
      JObj([quote_id |-> JStr("Q1"),
            url |-> JStr(""), quote_url |-> JStr("https://u/1")]),
      JObj([quote_id |-> JStr("Q2")]) }

JsonOutcome(http, data) == [k |-> "json", http |-> http, data |-> data]

FailureOutcomes ==
    { [k |-> "bad_body"], [k |-> "headers_not_object"], [k |-> "timeout"],
      [k |-> "request_exception"], [k |-> "not_json"] }

Outcomes ==
    FailureOutcomes
    \cup { JsonOutcome(200, d) : d \in ApiResponses }
    \cup { JsonOutcome(300, JObj([data |-> JObj([quote_id |-> JStr("Q1")])])) }

(* A variant of the configuration checks that goes on without an API URL. *)
ConfigError_NoUrlCheck(config) ==
    IF ~config.exists THEN "Fee quotation not configured for this journal."
    ELSE IF ~config.is_enabled THEN "Fee quotation is not enabled for this journal."
    ELSE None

(* The configuration checks: the message of the first that fails, or None. *)
ConfigError(config) ==
    IF ~config.exists THEN "Fee quotation not configured for this journal."
    ELSE IF ~config.is_enabled THEN "Fee quotation is not enabled for this journal."
    ELSE IF config.api_url = "" THEN "Fee quotation API URL is not configured."
    ELSE None

(* A variant of RequestOutcome that presents the quotation as soon as a   *)
(* quote id was found, whether or not a URL could be determined.          *)
RequestOutcome_PresentsWithoutUrl(q, config, outcome) ==
    IF ConfigError(config) # None
    THEN mark_error(q, ConfigError(config))
    ELSE IF outcome.k = "bad_body"
    THEN mark_error(q, "Invalid request body template")
    ELSE IF outcome.k = "timeout"
    THEN mark_error(q, "Fee quotation API request timed out.")
    ELSE IF outcome.k = "request_exception"
    THEN mark_error(q, "API request failed")
    ELSE IF outcome.k = "not_json"
    THEN mark_error(q, "API response was not valid JSON.")
    ELSE IF outcome.k = "headers_not_object"
    THEN q
    ELSE
      LET response_data == outcome.data
          q1 == [q EXCEPT !.api_response = response_data]
          quote_id == get_nested_value(response_data, config.response_quote_id_field)
          q2 == [q1 EXCEPT !.external_quote_id = PyStr(quote_id)]
      IN  IF ~Truthy(quote_id)
          THEN mark_error(q1, "API response did not contain quote ID")
          ELSE IF config.quotation_url_template # NoTemplate
          THEN [q2 EXCEPT !.quotation_url = Replace(config.quotation_url_template,
                                                    QUOTE_ID_PLACEHOLDER, PyStr(quote_id)),
                          !.status = PRESENTED]
          ELSE LET quotation_url == FallbackUrl(response_data)
               IN  [q2 EXCEPT !.quotation_url =
                                 IF Truthy(quotation_url) THEN PyStr(quotation_url) ELSE "",
                              !.status = PRESENTED]

(* The part of request_fee_quotation after the quotation is resolved and    *)
(* found neither presented nor accepted: the row it saves.                  *)
RequestOutcome(q, config, outcome) ==
    IF ConfigError(config) # None
    THEN mark_error(q, ConfigError(config))
    ELSE IF outcome.k = "bad_body"
    THEN mark_error(q, "Invalid request body template")
    ELSE IF outcome.k = "timeout"
    THEN mark_error(q, "Fee quotation API request timed out.")
    ELSE IF outcome.k = "request_exception"
    THEN mark_error(q, "API request failed")
    ELSE IF outcome.k = "not_json"
    THEN mark_error(q, "API response was not valid JSON.")
    ELSE IF outcome.k = "headers_not_object"
    THEN q
    ELSE
      LET response_data == outcome.data
          q1 == [q EXCEPT !.api_response = response_data]
          quote_id == get_nested_value(response_data, config.response_quote_id_field)
          q2 == [q1 EXCEPT !.external_quote_id = PyStr(quote_id)]
      IN  IF ~Truthy(quote_id)
          THEN mark_error(q1, "API response did not contain quote ID")
          ELSE IF config.quotation_url_template # NoTemplate
          THEN LET quotation_url == build_quotation_url(config, quote_id)
               IN  IF quotation_url # None /\ quotation_url # ""
                   THEN [q2 EXCEPT !.quotation_url = quotation_url,
                                   !.status = PRESENTED]
                   ELSE mark_error(q2, "Failed to build quotation URL from template.")
          ELSE LET quotation_url == FallbackUrl(response_data)
               IN  IF Truthy(quotation_url)
                   THEN [q2 EXCEPT !.quotation_url = PyStr(quotation_url),
                                   !.status = PRESENTED]
                   ELSE mark_error(q2, "No quotation URL template configured and API response did not contain a URL.")

(* True when the call gets past the configuration checks and the body. *)
PastBody(q, config, outcome) ==
    /\ q.status \notin {PRESENTED, ACCEPTED}
    /\ ConfigError(config) = None
    /\ outcome.k # "bad_body"

(* True when headers.update(custom_headers) raises: nothing catches it and *)
(* nothing is saved.                                                       *)
Escapes(q, config, outcome) ==
    PastBody(q, config, outcome) /\ outcome.k = "headers_not_object"

(* True when the call gets as far as requests.post. *)
IssuesExternalCall(q, config, outcome) ==
    PastBody(q, config, outcome) /\ outcome.k # "headers_not_object"

(* A variant of request_fee_quotation that returns early only on accepted. *)
request_fee_quotation_AcceptedOnly(qs, c, article, author, outcome, t) ==
    LET goc == get_or_create_quotation(qs, article, author, t)
        quotation == goc.qs[goc.pk]
        config == c[ArticleJournal[article]]
    IN  IF quotation.status = ACCEPTED
        THEN [qs |-> goc.qs, pk |-> goc.pk, created |-> goc.created,
              raised |-> FALSE, called |-> FALSE]
        ELSE IF ConfigError(config) = None /\ outcome.k = "headers_not_object"
        THEN [qs |-> goc.qs, pk |-> goc.pk, created |-> goc.created,
              raised |-> TRUE, called |-> FALSE]
        ELSE [qs |-> Save(goc.qs, goc.pk, RequestOutcome(quotation, config, outcome), t),
              pk |-> goc.pk, created |-> goc.created, raised |-> FALSE,
              called |-> ConfigError(config) = None /\ outcome.k # "bad_body"]

(* The table after the call, the row it resolved, whether it created the   *)
(* row, whether an exception left the call, whether requests.post ran.     *)
request_fee_quotation(qs, c, article, author, outcome, t) ==
    LET goc == get_or_create_quotation(qs, article, author, t)
        quotation == goc.qs[goc.pk]
        config == c[ArticleJournal[article]]
    IN  IF quotation.status \in {PRESENTED, ACCEPTED}
        THEN [qs |-> goc.qs, pk |-> goc.pk, created |-> goc.created,
              raised |-> FALSE, called |-> FALSE]
        ELSE IF Escapes(quotation, config, outcome)
        THEN [qs |-> goc.qs, pk |-> goc.pk, created |-> goc.created,
              raised |-> TRUE, called |-> FALSE]
        ELSE [qs |-> Save(goc.qs, goc.pk, RequestOutcome(quotation, config, outcome), t),
              pk |-> goc.pk, created |-> goc.created, raised |-> FALSE,
              called |-> IssuesExternalCall(quotation, config, outcome)]

(* views.request_quotation: 500 when the call raised, 400 with the message *)
(* on error, else 200.                                                     *)
RequestQuotation(article, outcome) ==
    \E r \in {request_fee_quotation(quots, cfg, article, ArticleOwner[article],
                                   outcome, now)} :
        /\ r.created => /\ Len(quots) < MaxQuots
                        /\ \A pk \in Pks(quots) : quots[pk].created < now
        /\ quots' = r.qs
        /\ last' = [op |-> "request", pk |-> r.pk,
                    code |-> IF r.raised THEN 500
                             ELSE IF r.qs[r.pk].status = ERROR THEN 400 ELSE 200,
                    text |-> r.qs[r.pk].status,
                    prev |-> IF r.created THEN "" ELSE quots[r.pk].status]
        /\ UNCHANGED <<cfg, now, modified, calls, rnd, art>>

(* A variant of the active statuses that counts accepted as active. *)
ActiveStatuses_WithAccepted == {PENDING, REQUESTED, PRESENTED, ACCEPTED}

(* Active statuses: what void_article_quotations and the hook act on. *)
ActiveStatuses == {PENDING, REQUESTED, PRESENTED}

RECURSIVE VoidFrom(_, _, _, _, _)
VoidFrom(qs, pk, article, reason, t) ==
    IF pk > Len(qs) THEN qs
    ELSE VoidFrom(IF qs[pk].article = article /\ qs[pk].status \in ActiveStatuses
                  THEN Save(qs, pk, mark_voided(qs[pk], reason), t)
                  ELSE qs,
                  pk + 1, article, reason, t)

(* A variant of void_article_quotations that removes the active rows. *)
void_article_quotations_Deleting(qs, article, reason, t) ==
    [qs |-> SelectSeq(qs, LAMBDA q : ~(q.article = article /\ q.status \in ActiveStatuses)),
     count |-> Cardinality({pk \in Pks(qs) : /\ qs[pk].article = article
                                             /\ qs[pk].status \in ActiveStatuses})]

void_article_quotations(qs, article, reason, t) ==
    [qs |-> VoidFrom(qs, 1, article, reason, t),
     count |-> Cardinality({pk \in Pks(qs) : /\ qs[pk].article = article
                                             /\ qs[pk].status \in ActiveStatuses})]

get_article_quotation(qs, article) ==
    FirstByCreatedDesc(qs, {pk \in Pks(qs) : qs[pk].article = article})

(* A variant of check_quotation_accepted that is satisfied by a quotation  *)
(* that was accepted at some time.                                          *)
check_quotation_accepted_OnceAccepted(qs, c, article) ==
    IF ~is_quotation_required_for_article(c, article) THEN TRUE
    ELSE IF ~c[ArticleJournal[article]].exists THEN TRUE
    ELSE IF ~c[ArticleJournal[article]].require_acceptance THEN TRUE
    ELSE \E pk \in Pks(qs) : qs[pk].article = article
                              /\ qs[pk].webhook_received_at # NoTime

check_quotation_accepted(qs, c, article) ==
    IF ~is_quotation_required_for_article(c, article) THEN TRUE
    ELSE IF ~c[ArticleJournal[article]].exists THEN TRUE
    ELSE IF ~c[ArticleJournal[article]].require_acceptance THEN TRUE
    ELSE \E pk \in Pks(qs) : qs[pk].article = article /\ qs[pk].status = ACCEPTED

VoidAll(article, reason) ==
    \E r \in {void_article_quotations(quots, article, reason, now)} :
        /\ quots' = r.qs
        /\ last' = [op |-> "void_all", pk |-> 0, code |-> r.count, text |-> "", prev |-> ""]
        /\ UNCHANGED <<cfg, now, modified, calls, rnd, art>>

-----------------------------------------------------------------------------
(* logic.py: the template renderer.  A text is the sequence of its         *)
(* characters; a key name, a digit and True/False count as one character.  *)

DQ == "\""

Placeholder(key) == <<"{", "{", key, "}", "}">>

Quoted(text) == <<DQ>> \o text \o <<DQ>>

StartsWithAt(text, pat, i) ==
    /\ i + Len(pat) - 1 <= Len(text)
    /\ \A k \in 1..Len(pat) : text[i + k - 1] = pat[k]

(* pat in text *)
Contains(text, pat) == \E i \in 1..Len(text) : StartsWithAt(text, pat, i)

(* str.replace: every non-overlapping occurrence, scanning from the left. *)
RECURSIVE ReplaceFrom(_, _, _, _)
ReplaceFrom(text, pat, rep, i) ==
    IF i > Len(text) THEN <<>>
    ELSE IF StartsWithAt(text, pat, i)
    THEN rep \o ReplaceFrom(text, pat, rep, i + Len(pat))
    ELSE <<text[i]>> \o ReplaceFrom(text, pat, rep, i + 1)

StrReplace(text, pat, rep) == ReplaceFrom(text, pat, rep, 1)

(* Context values: JStr of a text, JNum, JNull for None, and booleans and   *)
(* lists.                                                                  *)
VBool(b) == [t |-> "bool", b |-> b]
VList(items) == [t |-> "list", items |-> items]

(* bool(value) *)
ValueTruthy(value) ==
    CASE value.t = "str" -> value.s # <<>>
      [] value.t = "num" -> value.n # 0
      [] value.t = "bool" -> value.b
      [] value.t = "null" -> FALSE
      [] OTHER -> value.items # <<>>

Digit(n) == <<CASE n = 0 -> "0" [] n = 1 -> "1" [] n = 2 -> "2" [] OTHER -> "7">>

(* str(value) of a scalar *)
StrOf(value) ==
    CASE value.t = "str" -> value.s
      [] value.t = "num" -> Digit(value.n)
      [] value.t = "bool" -> IF value.b THEN <<"True">> ELSE <<"False">>
      [] OTHER -> <<"None">>

(* json.dumps of a scalar item and of a list *)
JsonItem(value) ==
    CASE value.t = "str" -> Quoted(value.s)
      [] value.t = "num" -> Digit(value.n)
      [] value.t = "bool" -> IF value.b THEN <<"true">> ELSE <<"false">>
      [] OTHER -> <<"null">>

RECURSIVE JsonItems(_)
JsonItems(items) ==
    IF items = <<>> THEN <<>>
    ELSE IF Len(items) = 1 THEN JsonItem(items[1])
    ELSE JsonItem(items[1]) \o <<",", " ">> \o JsonItems(Tail(items))

JsonDumps(value) == <<"[">> \o JsonItems(value.items) \o <<"]">>

(* One turn of the loop of render_template. *)
RenderKey(result, key, value) ==
    IF value.t = "list"
    THEN IF Contains(result, Quoted(Placeholder(key)))
         THEN StrReplace(result, Quoted(Placeholder(key)), JsonDumps(value))
         ELSE StrReplace(result, Placeholder(key), JsonDumps(value))
    ELSE StrReplace(result, Placeholder(key),
                    IF ValueTruthy(value) THEN StrOf(value) ELSE <<>>)

(* context is the dict in its iteration order: a sequence of <<key, value>>. *)
RECURSIVE render_template(_, _)
render_template(template, context) ==
    IF context = <<>> THEN template
    ELSE render_template(RenderKey(template, context[1][1], context[1][2]),
                         Tail(context))

NoRender == [template |-> <<>>, context |-> <<>>, out |-> <<>>, done |-> FALSE]

Render ==
    /\ ~rnd.done
    /\ rnd' = [rnd EXCEPT !.out = render_template(rnd.template, rnd.context),
                          !.done = TRUE]
    /\ last' = [op |-> "render", pk |-> 0, code |-> 0, text |-> "", prev |-> ""]
    /\ UNCHANGED <<quots, cfg, now, modified, calls, art>>

-----------------------------------------------------------------------------
(* logic.py: the authors array of the request context.  art is the article *)
(* being submitted: its frozen authors (pk, order, linked account or None), *)
(* its correspondence author, and the primary flags of the array built.    *)

(* build_author_data: the "primary" entry. *)
is_primary(frozen_author, correspondence_author) ==
    IF correspondence_author # None /\ frozen_author.author # None
    THEN frozen_author.author = correspondence_author
    ELSE IF frozen_author.order = 1
    THEN correspondence_author = None
    ELSE FALSE

(* frozenauthor_set.all().order_by("order", "pk") *)
RECURSIVE OrderedAuthors(_)
OrderedAuthors(S) ==
    IF S = {} THEN <<>>
    ELSE LET first == CHOOSE x \in S : \A y \in S :
                         \/ x.order < y.order
                         \/ (x.order = y.order /\ x.pk <= y.pk)
         IN  <<first>> \o OrderedAuthors(S \ {first})

build_authors_list(frozen_authors, correspondence_author) ==
    [i \in 1..Cardinality(frozen_authors) |->
        [pk |-> OrderedAuthors(frozen_authors)[i].pk,
         primary |-> IF is_primary(OrderedAuthors(frozen_authors)[i], correspondence_author)
                     THEN "true" ELSE "false"]]

NoAuthors == [frozen |-> {}, correspondence_author |-> None, built |-> <<>>, done |-> FALSE]

BuildAuthorsList ==
    /\ ~art.done
    /\ art' = [art EXCEPT !.built = build_authors_list(art.frozen, art.correspondence_author),
                          !.done = TRUE]
    /\ last' = [op |-> "authors", pk |-> 0, code |-> 0, text |-> "", prev |-> ""]
    /\ UNCHANGED <<quots, cfg, now, modified, calls, rnd>>

-----------------------------------------------------------------------------
(* hooks.py: the staleness check of the submission review page. *)

should_void_quotation(q, article_last_modified) ==
    IF q.status \notin ActiveStatuses THEN FALSE
    ELSE article_last_modified # NoTime /\ article_last_modified > q.created

STALE_REASON == "Article was modified after quotation was requested."

(* The table after the hook ran, and the row the page is rendered with. *)
inject_fee_quotation_ui(qs, c, article, article_last_modified, t) ==
    LET config == c[ArticleJournal[article]]
        quotation == get_article_quotation(qs, article)
    IN  IF ~config.exists THEN [qs |-> qs, shown |-> 0, rendered |-> FALSE]
        ELSE IF ~config.is_enabled THEN [qs |-> qs, shown |-> 0, rendered |-> FALSE]
        ELSE IF ~is_quotation_required_for_article(c, article)
        THEN [qs |-> qs, shown |-> 0, rendered |-> FALSE]
        ELSE IF quotation # 0 /\ should_void_quotation(qs[quotation], article_last_modified)
        THEN [qs |-> void_article_quotations(qs, article, STALE_REASON, t).qs,
              shown |-> 0, rendered |-> TRUE]
        ELSE [qs |-> qs, shown |-> quotation, rendered |-> TRUE]

StalenessCheck(article) ==
    \E r \in {inject_fee_quotation_ui(quots, cfg, article, modified[article], now)} :
        /\ quots' = r.qs
        /\ last' = [op |-> "hook", pk |-> r.shown,
                    code |-> IF r.rendered THEN 200 ELSE 0, text |-> "",
                    prev |-> ""]
        /\ UNCHANGED <<cfg, now, modified, calls, rnd, art>>

-----------------------------------------------------------------------------
(* views.py: the webhook handler. *)

(* Request bodies (raw bytes): text that is no JSON, bytes that are no     *)
(* UTF-8, or the serialization of a JSON value.                             *)
Payload(quote_id, status) ==
    JObj([key \in ((IF quote_id = JAbsent THEN {} ELSE {"quote_id"})
                   \cup (IF status = JAbsent THEN {} ELSE {"status"})) |->
            IF key = "quote_id" THEN quote_id ELSE status])

PayloadQuoteIds == {JAbsent, JStr(""), JStr("Q1"), JStr("Q2")}
PayloadStatuses == {JAbsent, JNull, JStr("accepted"), JStr("Accepted"),
                    JStr("DECLINED"), JStr("paid")}

Bodies ==
    { [k |-> "text"], [k |-> "bytes"], [k |-> "json", v |-> JArr(1)] }
    \cup { [k |-> "json", v |-> Payload(q, st)] :
               q \in PayloadQuoteIds, st \in PayloadStatuses }

(* json.loads(request.body): the parsed value, or the exception raised. *)
json_loads(body) ==
    CASE body.k = "text" -> [ok |-> FALSE, exc |-> "JSONDecodeError"]
      [] body.k = "bytes" -> [ok |-> FALSE, exc |-> "UnicodeDecodeError"]
      [] OTHER -> [ok |-> TRUE, v |-> body.v]

(* str.lower() on the status texts of the model. *)
Lower(str) ==
    CASE str = "DECLINED" -> "declined"
      [] str = "Accepted" -> "accepted"
      [] OTHER -> str

(* The X-Webhook-Signature header: absent, empty, text that is not ASCII,  *)
(* or a hex digest, which is the digest of one message under one key.      *)
SigAbsent == [k |-> "absent"]
SigEmpty == [k |-> "empty"]
SigNonAscii == [k |-> "nonascii"]

(* hmac.new(key, msg, sha256).hexdigest(): collision-free. *)
hexdigest(key, msg) == [k |-> "hex", key |-> key, msg |-> msg]

SigTruthy(signature) == signature.k \notin {"absent", "empty"}

AttackerKey == "k0"

Signatures(body) ==
    {SigAbsent, SigEmpty, SigNonAscii}
    \cup { hexdigest(key, body) : key \in Secrets \cup {AttackerKey} }
    \cup { hexdigest(key, [k |-> "text"]) : key \in Secrets }

(* A variant of the lookup that leaves accepted and declined rows out. *)
WebhookLookup_ActiveOnly(qs, journal, quote_id) ==
    FirstByCreatedDesc(qs,
        {pk \in Pks(qs) : /\ qs[pk].external_quote_id = PyStr(quote_id)
                          /\ ArticleJournal[qs[pk].article] = journal
                          /\ qs[pk].status \notin {VOIDED, ERROR, EXPIRED,
                                                   ACCEPTED, DECLINED}})

(* A variant of the lookup that does not filter on the journal. *)
WebhookLookup_AnyJournal(qs, journal, quote_id) ==
    FirstByCreatedDesc(qs,
        {pk \in Pks(qs) : /\ qs[pk].external_quote_id = PyStr(quote_id)
                          /\ qs[pk].status \notin {VOIDED, ERROR, EXPIRED}})

(* The quotation the handler looks up; 0 when there is none. *)
WebhookLookup(qs, journal, quote_id) ==
    FirstByCreatedDesc(qs,
        {pk \in Pks(qs) : /\ qs[pk].external_quote_id = PyStr(quote_id)
                          /\ ArticleJournal[qs[pk].article] = journal
                          /\ qs[pk].status \notin {VOIDED, ERROR, EXPIRED}})

Rejected(qs, reason) == [qs |-> qs, code |-> 400, body |-> reason, pk |-> 0]
Raised(qs, exc) == [qs |-> qs, code |-> 500, body |-> exc, pk |-> 0]

(* A variant of the signature step that demands a signature when a secret *)
(* is configured.                                                          *)
VerifySignature_Required(config, body, signature) ==
    IF config.webhook_secret # ""
    THEN IF signature.k = "nonascii" THEN "raise"
         ELSE IF signature = hexdigest(config.webhook_secret, body) THEN "pass"
         ELSE "reject"
    ELSE "pass"

(* The signature step: "pass", "reject" or "raise". *)
VerifySignature(config, body, signature) ==
    IF config.webhook_secret # "" /\ SigTruthy(signature)
    THEN IF signature.k = "nonascii" THEN "raise"
         ELSE IF signature = hexdigest(config.webhook_secret, body) THEN "pass"
         ELSE "reject"
    ELSE "pass"

(* A variant of the handler that records the payload on the row before it *)
(* looks at the status.                                                    *)
WebhookUpdate_RecordsFirst(qs, journal, payload, t) ==
    IF payload.t # "obj" THEN Raised(qs, "AttributeError")
    ELSE LET quote_id == DictGet(payload, "quote_id")
         IN  IF ~Truthy(quote_id) THEN Rejected(qs, "Missing quote_id")
             ELSE LET pk == WebhookLookup(qs, journal, quote_id)
                      raw == IF "status" \in DOMAIN payload.f
                             THEN payload.f["status"] ELSE JStr("")
                      rec == IF pk = 0 THEN qs
                             ELSE Save(qs, pk, [qs[pk] EXCEPT !.webhook_payload = payload], t)
                  IN  IF pk = 0 THEN Rejected(qs, "Quotation not found")
                      ELSE IF raw.t # "str" THEN Raised(rec, "AttributeError")
                      ELSE IF Lower(raw.s) = "accepted"
                      THEN [qs |-> Save(rec, pk, mark_accepted(rec[pk], payload, t), t),
                            code |-> 200, body |-> ACCEPTED, pk |-> pk]
                      ELSE IF Lower(raw.s) = "declined"
                      THEN [qs |-> Save(rec, pk, mark_declined(rec[pk], payload, t), t),
                            code |-> 200, body |-> DECLINED, pk |-> pk]
                      ELSE Rejected(rec, "Unknown status")

(* The handler from the parsed payload on. *)
WebhookUpdate(qs, journal, payload, t) ==
    IF payload.t # "obj" THEN Raised(qs, "AttributeError")
    ELSE LET quote_id == DictGet(payload, "quote_id")
         IN  IF ~Truthy(quote_id) THEN Rejected(qs, "Missing quote_id")
             ELSE LET pk == WebhookLookup(qs, journal, quote_id)
                      raw == IF "status" \in DOMAIN payload.f
                             THEN payload.f["status"] ELSE JStr("")
                  IN  IF pk = 0 THEN Rejected(qs, "Quotation not found")
                      ELSE IF raw.t # "str" THEN Raised(qs, "AttributeError")
                      ELSE IF Lower(raw.s) = "accepted"
                      THEN [qs |-> Save(qs, pk, mark_accepted(qs[pk], payload, t), t),
                            code |-> 200, body |-> ACCEPTED, pk |-> pk]
                      ELSE IF Lower(raw.s) = "declined"
                      THEN [qs |-> Save(qs, pk, mark_declined(qs[pk], payload, t), t),
                            code |-> 200, body |-> DECLINED, pk |-> pk]
                      ELSE Rejected(qs, "Unknown status")

webhook_callback(qs, c, journal_code, body, signature, t) ==
    IF journal_code \notin Journals THEN Rejected(qs, "Invalid journal code")
    ELSE IF ~c[journal_code].exists
    THEN Rejected(qs, "Fee quotation not configured for this journal")
    ELSE LET v == VerifySignature(c[journal_code], body, signature)
             parsed == json_loads(body)
         IN  IF v = "raise" THEN Raised(qs, "TypeError")
             ELSE IF v = "reject" THEN Rejected(qs, "Invalid signature")
             ELSE IF ~parsed.ok
             THEN IF parsed.exc = "JSONDecodeError"
                  THEN Rejected(qs, "Invalid JSON payload")
                  ELSE Raised(qs, parsed.exc)
             ELSE WebhookUpdate(qs, journal_code, parsed.v, t)

WebhookCallback(journal_code, body, signature) ==
    \E r \in {webhook_callback(quots, cfg, journal_code, body, signature, now)} :
        /\ quots' = r.qs
        /\ last' = [op |-> "webhook", pk |-> r.pk, code |-> r.code,
                    text |-> IF r.code = 200 THEN r.body ELSE "",
                    prev |-> IF r.pk = 0 THEN "" ELSE quots[r.pk].status]
        /\ UNCHANGED <<cfg, now, modified, calls, rnd, art>>

-----------------------------------------------------------------------------
(* views.py: the manager pages. *)

(* A variant of can_proceed that lets any answered quotation proceed. *)
can_proceed_AnyAnswer(q, c) ==
    IF c[ArticleJournal[q.article]].exists
       /\ ~c[ArticleJournal[q.article]].require_acceptance
    THEN TRUE
    ELSE q.status \in {ACCEPTED, DECLINED}

(* FeeQuotation.can_proceed *)
can_proceed(q, c) ==
    IF c[ArticleJournal[q.article]].exists
       /\ ~c[ArticleJournal[q.article]].require_acceptance
    THEN TRUE
    ELSE is_accepted(q)

(* check_quotation_status: 404 unless the row exists and is the user's. *)
check_quotation_status(qs, c, quotation_id, user) ==
    IF quotation_id \notin Pks(qs) \/ qs[quotation_id].author # user
    THEN [code |-> 404, status |-> "", is_accepted |-> FALSE, can_proceed |-> FALSE,
          quotation_url |-> None]
    ELSE [code |-> 200, status |-> qs[quotation_id].status,
          is_accepted |-> is_accepted(qs[quotation_id]),
          can_proceed |-> can_proceed(qs[quotation_id], c),
          quotation_url |-> qs[quotation_id].quotation_url]

CheckQuotationStatus(quotation_id, user) ==
    \E r \in {check_quotation_status(quots, cfg, quotation_id, user)} :
        /\ last' = [op |-> "status", pk |-> IF r.code = 200 THEN quotation_id ELSE 0,
                    code |-> r.code, text |-> r.status, prev |-> ""]
        /\ UNCHANGED <<quots, cfg, now, modified, calls, rnd, art>>

(* A variant of save() that stores the secret as it is. *)
ConfigSave_KeepsEmpty(config, fresh) == config

(* FeeQuotationConfiguration.save(): an empty secret is replaced. *)
ConfigSave(config, fresh) ==
    [config EXCEPT !.webhook_secret = IF @ = "" THEN fresh ELSE @]

(* manager: get_or_create the row, then save a valid form into it. *)
Manager(journal, form, fresh) ==
    LET config == IF cfg[journal].exists THEN cfg[journal]
                  ELSE ConfigSave(Config(DefaultForm, ""), fresh)
    IN  /\ cfg' = [cfg EXCEPT ![journal] =
                      ConfigSave(Config(form, config.webhook_secret), fresh)]
        /\ last' = [op |-> "manager", pk |-> 0, code |-> 200, text |-> "", prev |-> ""]
        /\ UNCHANGED <<quots, now, modified, calls, rnd, art>>

RegenerateWebhookSecret(journal, fresh) ==
    /\ cfg[journal].exists
    /\ cfg' = [cfg EXCEPT ![journal] =
                  ConfigSave([@ EXCEPT !.webhook_secret = fresh], fresh)]
    /\ last' = [op |-> "regenerate", pk |-> 0, code |-> 200, text |-> "", prev |-> ""]
    /\ UNCHANGED <<quots, now, modified, calls, rnd, art>>

-----------------------------------------------------------------------------
(* The host: time passes, articles are edited, a quotation is given an     *)
(* expiry.                                                                  *)

Tick ==
    /\ now < MaxTime
    /\ now' = now + 1
    /\ last' = [op |-> "host", pk |-> 0, code |-> 0, text |-> "", prev |-> ""]
    /\ UNCHANGED <<quots, cfg, modified, calls, rnd, art>>

ModifyArticle(article) ==
    /\ modified' = [modified EXCEPT ![article] = now]
    /\ last' = [op |-> "host", pk |-> 0, code |-> 0, text |-> "", prev |-> ""]
    /\ UNCHANGED <<quots, cfg, now, calls, rnd, art>>

SetExpiresAt(pk, t) ==
    /\ pk \in Pks(quots)
    /\ quots' = [quots EXCEPT ![pk].expires_at = t]
    /\ last' = [op |-> "host", pk |-> 0, code |-> 0, text |-> "", prev |-> ""]
    /\ UNCHANGED <<cfg, now, modified, calls, rnd, art>>

-----------------------------------------------------------------------------
(* The deliveries, requests and configurations the model runs. *)

Body(quote_id, status) == [k |-> "json", v |-> Payload(quote_id, status)]

GoodBodies ==
    { Body(JStr(q), JStr(st)) : q \in {"Q1", "Q2"}, st \in {"accepted", "DECLINED"} }

Deliveries ==
    { <<j, b, s>> : j \in Journals, b \in GoodBodies, s \in {SigAbsent} }
    \cup { <<"J1", Body(JStr("Q1"), JStr(st)), hexdigest("s1", Body(JStr("Q1"), JStr(st)))>> :
              st \in {"accepted", "DECLINED"} }
    \cup { <<j, Body(JStr("Q1"), JStr("accepted")), SigAbsent>> : j \in {"JX"} }
    \cup { <<"J1", b, SigAbsent>> :
              b \in { [k |-> "text"], [k |-> "json", v |-> JArr(1)],
                      Body(JStr("Q1"), JStr("paid")), Body(JStr("Q1"), JNull) } }
    \cup { <<"J1", Body(JStr("Q1"), JStr("accepted")), s>> :
              s \in { SigEmpty, SigNonAscii,
                      hexdigest(AttackerKey, Body(JStr("Q1"), JStr("accepted"))) } }

(* Every delivery over the bodies and signature headers of the model. *)
AllDeliveries ==
    { <<"J1", b, SigAbsent>> : b \in Bodies }
    \cup { <<j, b, SigAbsent>> : j \in JournalCodes,
                                 b \in { [k |-> "text"], Body(JStr("Q1"), JStr("accepted")),
                                         Body(JStr("Q1"), JStr("paid")) } }
    \cup UNION { { <<"J1", b, s>> : s \in Signatures(b) } :
                   b \in { [k |-> "text"], Body(JStr("Q1"), JStr("accepted")),
                           Body(JStr("Q1"), JStr("paid")) } }

WorkingForm ==
    Form(TRUE, "https://api", <<"https://x/", QUOTE_ID_PLACEHOLDER>>,
         "data.quote_id", TRUE, "all", {})

FallbackForm ==
    Form(TRUE, "https://api", NoTemplate, "quote_id", FALSE, "all", {})

(* Requests in flight.  Two workers serve request_quotation at once; each  *)
(* call holds the row it loaded or created as its own in-memory object.    *)
Callers == {"w1", "w2"}

IdleCall == [pc |-> "idle", article |-> None, pk |-> 0, mem |-> NoJson]

(* A variant of the lookup that expects at most one reusable row for the   *)
(* pair, the way a get() query does.                                       *)
FindExisting_SingleRow(qs, article, author) ==
    LET S == {pk \in Pks(qs) : /\ qs[pk].article = article
                               /\ qs[pk].author = author
                               /\ qs[pk].status \in ReusableStatuses}
    IN  IF Cardinality(S) > 1 THEN {[raised |-> TRUE, pk |-> 0]}
        ELSE IF S = {} THEN {[raised |-> FALSE, pk |-> 0]}
        ELSE {[raised |-> FALSE, pk |-> pk] : pk \in S}

(* filter(...).order_by("-created").first(): no row, or a newest row; the  *)
(* database picks among rows created at the same instant.                  *)
FindExisting(qs, article, author) ==
    LET S == {pk \in Pks(qs) : /\ qs[pk].article = article
                               /\ qs[pk].author = author
                               /\ qs[pk].status \in ReusableStatuses}
    IN  IF S = {} THEN {[raised |-> FALSE, pk |-> 0]}
        ELSE {[raised |-> FALSE, pk |-> pk] :
                pk \in {x \in S : \A o \in S : qs[o].created <= qs[x].created}}

(* objects.create(...): the table has no uniqueness constraint on the pair. *)
InsertQuotation(qs, article, author, t) ==
    [raised |-> FALSE, qs |-> Append(qs, NewQuotation(article, author, t)),
     pk |-> Len(qs) + 1]

(* The rest of request_fee_quotation on the in-memory row of a call: the   *)
(* table after it, the row returned, whether an exception left the call.   *)
CompleteCall(qs, c, call, outcome, t) ==
    LET config == c[ArticleJournal[call.article]]
    IN  IF call.mem.status \in {PRESENTED, ACCEPTED}
        THEN [qs |-> qs, row |-> call.mem, raised |-> FALSE]
        ELSE IF Escapes(call.mem, config, outcome)
        THEN [qs |-> qs, row |-> call.mem, raised |-> TRUE]
        ELSE [qs |-> Save(qs, call.pk, RequestOutcome(call.mem, config, outcome), t),
              row |-> RequestOutcome(call.mem, config, outcome), raised |-> FALSE]

(* get_or_create_quotation, the query. *)
BeginRequest(w, article) ==
    /\ calls[w].pc = "idle"
    /\ \E f \in FindExisting(quots, article, ArticleOwner[article]) :
         IF f.raised
         THEN /\ calls' = calls
              /\ last' = [op |-> "request", pk |-> 0, code |-> 500,
                          text |-> "", prev |-> ""]
         ELSE /\ calls' = [calls EXCEPT ![w] =
                             IF f.pk # 0 /\ ~is_expired(quots[f.pk], now)
                             THEN [pc |-> "resolved", article |-> article,
                                   pk |-> f.pk, mem |-> quots[f.pk]]
                             ELSE [pc |-> "creating", article |-> article,
                                   pk |-> 0, mem |-> NoJson]]
              /\ last' = [op |-> "query", pk |-> f.pk, code |-> 0,
                          text |-> "", prev |-> ""]
    /\ UNCHANGED <<quots, cfg, now, modified, rnd, art>>

(* get_or_create_quotation, the insert. *)
CreateQuotation(w) ==
    /\ calls[w].pc = "creating"
    /\ Len(quots) < MaxQuots
    /\ \E r \in {InsertQuotation(quots, calls[w].article,
                                  ArticleOwner[calls[w].article], now)} :
         IF r.raised
         THEN /\ calls' = [calls EXCEPT ![w] = IdleCall]
              /\ quots' = quots
              /\ last' = [op |-> "request", pk |-> 0, code |-> 500,
                          text |-> "", prev |-> ""]
         ELSE /\ calls' = [calls EXCEPT ![w] =
                             [pc |-> "resolved", article |-> calls[w].article,
                              pk |-> r.pk, mem |-> r.qs[r.pk]]]
              /\ quots' = r.qs
              /\ last' = [op |-> "insert", pk |-> r.pk, code |-> 0,
                          text |-> "", prev |-> ""]
    /\ UNCHANGED <<cfg, now, modified, rnd, art>>

(* The call from the resolved row to the response of the view. *)
CompleteRequest(w, outcome) ==
    /\ calls[w].pc = "resolved"
    /\ \E r \in {CompleteCall(quots, cfg, calls[w], outcome, now)} :
         /\ quots' = r.qs
         /\ last' = [op |-> "request", pk |-> calls[w].pk,
                     code |-> IF r.raised THEN 500
                              ELSE IF r.row.status = ERROR THEN 400 ELSE 200,
                     text |-> r.row.status, prev |-> quots[calls[w].pk].status]
    /\ calls' = [calls EXCEPT ![w] = IdleCall]
    /\ UNCHANGED <<cfg, now, modified, rnd, art>>

(* The configurations the manager view has saved before the run: J1 with   *)
(* a URL template, J2 either without a configuration or with one that      *)
(* takes the URL from the response.  save() has given each a secret.       *)
InitialConfigs ==
    { [j \in Journals |-> IF j = "J1" THEN Config(WorkingForm, "s1") ELSE c2] :
        c2 \in {NoConfig, Config(FallbackForm, "s1")} }

Init ==
    /\ quots = <<>>
    /\ cfg \in InitialConfigs
    /\ now = 0
    /\ modified = [a \in Articles |-> 0]
    /\ last = [op |-> "init", pk |-> 0, code |-> 0, text |-> "", prev |-> ""]
    /\ calls = [c \in Callers |-> IdleCall]
    /\ rnd = NoRender
    /\ art = NoAuthors

Lifecycle ==
    \/ \E a \in Articles, o \in Outcomes : RequestQuotation(a, o)
    \/ \E d \in Deliveries : WebhookCallback(d[1], d[2], d[3])
    \/ \E a \in Articles, r \in {None, "changed"} : VoidAll(a, r)
    \/ \E a \in Articles : StalenessCheck(a)
    \/ Tick
    \/ \E a \in Articles : ModifyArticle(a)

Next == Lifecycle

Spec == Init /\ [][Next]_vars

(* The operations with request_quotation served by two workers at once,   *)
(* both for article a1 and its owner.                                      *)
ConcurrentOutcomes ==
    { [k |-> "timeout"], [k |-> "headers_not_object"],
      JsonOutcome(200, JObj([data |-> JObj([quote_id |-> JStr("Q1")])])),
      JsonOutcome(200, JObj([quote_id |-> JStr("Q2"), url |-> JStr("https://u/2")])) }

ConcurrentDeliveries ==
    { <<"J1", Body(JStr("Q1"), JStr(st)), SigAbsent>> : st \in {"accepted", "declined"} }

NextConcurrent ==
    \/ \E w \in Callers : BeginRequest(w, "a1")
    \/ \E w \in Callers : CreateQuotation(w)
    \/ \E w \in Callers, o \in ConcurrentOutcomes : CompleteRequest(w, o)
    \/ \E d \in ConcurrentDeliveries : WebhookCallback(d[1], d[2], d[3])
    \/ VoidAll("a1", "changed")
    \/ Tick

SpecConcurrent == Init /\ [][NextConcurrent]_vars

(* Tables of four rows in every combination of article and status the    *)
(* status column admits (models.py CHOICES); requested and expired are    *)
(* written by the host only.  A row past pending carries what the call    *)
(* that presented it stored.                                               *)
AllStatuses ==
    {PENDING, REQUESTED, PRESENTED, ACCEPTED, DECLINED, ERROR, EXPIRED, VOIDED}

StoredRow(article, status, t) ==
    IF status \in {PRESENTED, ACCEPTED, DECLINED}
    THEN [NewQuotation(article, ArticleOwner[article], t) EXCEPT
            !.status = status, !.external_quote_id = "Q1",
            !.quotation_url = "https://x/Q1",
            !.api_response = JObj([data |-> JObj([quote_id |-> JStr("Q1")])])]
    ELSE IF status = ERROR
    THEN [NewQuotation(article, ArticleOwner[article], t) EXCEPT
            !.status = status, !.error_message = "Fee quotation API request timed out."]
    ELSE [NewQuotation(article, ArticleOwner[article], t) EXCEPT !.status = status]

TableRows == 4

InitTables ==
    /\ \E a \in [1..TableRows -> Articles], st \in [1..TableRows -> AllStatuses] :
         quots = [pk \in 1..TableRows |-> StoredRow(a[pk], st[pk], 0)]
    /\ cfg = [j \in Journals |-> Config(WorkingForm, "s1")]
    /\ now = 1
    /\ modified = [a \in Articles |-> 0]
    /\ last = [op |-> "init", pk |-> 0, code |-> 0, text |-> "", prev |-> ""]
    /\ calls = [c \in Callers |-> IdleCall]
    /\ rnd = NoRender
    /\ art = NoAuthors

NextTables ==
    \E a \in Articles, r \in {None, "changed"} : VoidAll(a, r)

SpecTables == InitTables /\ [][NextTables]_vars

(* The review page and article edits next to request_quotation served by  *)
(* two workers for article a1.                                             *)
StaleOutcomes ==
    { [k |-> "timeout"],
      JsonOutcome(200, JObj([data |-> JObj([quote_id |-> JStr("Q1")])])) }

NextStale ==
    \/ \E w \in Callers : BeginRequest(w, "a1")
    \/ \E w \in Callers : CreateQuotation(w)
    \/ \E w \in Callers, o \in StaleOutcomes : CompleteRequest(w, o)
    \/ StalenessCheck("a1")
    \/ ModifyArticle("a1")
    \/ Tick

SpecStale == Init /\ [][NextStale]_vars

(* The editor saves configurations with every section condition while    *)
(* quotations are requested, answered by webhooks, polled by the author    *)
(* and shown on the review page.                                           *)
Sections == {"S1", "S2"}

SectionForms ==
    { Form(e, "https://api", <<"https://x/", QUOTE_ID_PLACEHOLDER>>,
           "data.quote_id", r, m, sel) :
        e \in BOOLEAN, r \in BOOLEAN, m \in {"all", "include", "exclude"},
        sel \in SUBSET Sections }

SectionDeliveries ==
    { <<"J1", Body(JStr("Q1"), JStr(st)), SigAbsent>> : st \in {"accepted", "declined"} }

NextSections ==
    \/ \E f \in SectionForms : Manager("J1", f, "s2")
    \/ \E o \in StaleOutcomes : RequestQuotation("a1", o)
    \/ \E d \in SectionDeliveries : WebhookCallback(d[1], d[2], d[3])
    \/ \E a \in Articles : StalenessCheck(a)
    \/ \E pk \in 1..MaxQuots : CheckQuotationStatus(pk, "u1")

SpecSections == Init /\ [][NextSections]_vars

(* Every operation of the plugin side by side: request_quotation in its   *)
(* steps, webhooks, voiding, the review page, the status query and the     *)
(* configuration page.                                                     *)
NextRetain ==
    \/ BeginRequest("w1", "a1")
    \/ CreateQuotation("w1")
    \/ \E o \in StaleOutcomes : CompleteRequest("w1", o)
    \/ \E d \in SectionDeliveries : WebhookCallback(d[1], d[2], d[3])
    \/ VoidAll("a1", "changed")
    \/ StalenessCheck("a1")
    \/ ModifyArticle("a1")
    \/ \E pk \in 1..MaxQuots : CheckQuotationStatus(pk, "u1")
    \/ \E f \in {x \in ConfigForms : x.section_mode = "exclude"} : Manager("J1", f, "s2")
    \/ Tick

SpecRetain == Init /\ [][NextRetain]_vars

(* The renderer on templates of up to three pieces and contexts in the    *)
(* key order of build_request_context and in the opposite order.           *)
RenderPieces ==
    { Placeholder("article_id"), Placeholder("article_title"), Placeholder("authors"),
      Quoted(Placeholder("authors")), Placeholder("unknown"), <<"x">> }

MaxPieces == 3

RenderTemplates ==
    UNION { { p1 \o p2 \o p3 : p1 \in RenderPieces,
                                p2 \in IF n >= 2 THEN RenderPieces ELSE {<<>>},
                                p3 \in IF n >= 3 THEN RenderPieces ELSE {<<>>} } :
            n \in 1..MaxPieces }

RenderValues ==
    [article_id |-> {JNum(0), JNum(7)},
     article_title |-> {JStr(<<>>), JStr(<<"t">>), JNull, VBool(FALSE),
                        JStr(Placeholder("authors")), JStr(Placeholder("article_id"))},
     authors |-> {VList(<<>>), VList(<<JNum(1), JNum(2)>>),
                  VList(<<JStr(Placeholder("article_title"))>>)}]

Reverse(seq) == [i \in 1..Len(seq) |-> seq[Len(seq) + 1 - i]]

RenderContexts ==
    UNION { { c, Reverse(c) } :
            c \in { <<<<"article_id", v1>>, <<"article_title", v2>>, <<"authors", v3>>>> :
                      v1 \in RenderValues.article_id,
                      v2 \in RenderValues.article_title,
                      v3 \in RenderValues.authors } }

InitRender ==
    /\ quots = <<>>
    /\ cfg = [j \in Journals |-> Config(WorkingForm, "s1")]
    /\ now = 0
    /\ modified = [a \in Articles |-> 0]
    /\ last = [op |-> "init", pk |-> 0, code |-> 0, text |-> "", prev |-> ""]
    /\ calls = [c \in Callers |-> IdleCall]
    /\ \E t \in RenderTemplates, c \in RenderContexts :
         rnd = [template |-> t, context |-> c, out |-> <<>>, done |-> FALSE]
    /\ art = NoAuthors

SpecRender == InitRender /\ [][Render]_vars

(* Articles with one to three frozen authors, each with an order value   *)
(* and a linked account or none, and a correspondence author that is       *)
(* unset, one of the accounts, or an account that is no author.            *)
MaxAuthors == 3

FrozenAuthorSets ==
    UNION { { { [pk |-> i, order |-> o[i], author |-> acc[i]] : i \in 1..n } :
              o \in [1..n -> {0, 1, 2}], acc \in [1..n -> {None, "u1", "u2"}] } :
            n \in 1..MaxAuthors }

InitAuthors ==
    /\ quots = <<>>
    /\ cfg = [j \in Journals |-> Config(WorkingForm, "s1")]
    /\ now = 0
    /\ modified = [a \in Articles |-> 0]
    /\ last = [op |-> "init", pk |-> 0, code |-> 0, text |-> "", prev |-> ""]
    /\ calls = [c \in Callers |-> IdleCall]
    /\ rnd = NoRender
    /\ \E fs \in FrozenAuthorSets, ca \in {None, "u1", "u3"} :
         art = [frozen |-> fs, correspondence_author |-> ca, built |-> <<>>, done |-> FALSE]

SpecAuthors == InitAuthors /\ [][BuildAuthorsList]_vars

(* The editor saves configurations and regenerates secrets while webhooks *)
(* arrive.                                                                 *)
NextSecrets ==
    \/ \E j \in Journals, f \in ConfigForms, fresh \in Secrets : Manager(j, f, fresh)
    \/ \E j \in Journals, fresh \in Secrets : RegenerateWebhookSecret(j, fresh)
    \/ \E d \in Deliveries : WebhookCallback(d[1], d[2], d[3])

SpecSecrets == Init /\ [][NextSecrets]_vars

(* The quotation operations with a host that also writes the expiry of a  *)
(* quotation; article edits and the staleness hook, which reach the rows   *)
(* only through void_article_quotations, are left to Spec.                 *)
ExpiryChoices == {NoTime, 0}

NextExpiry ==
    \/ \E a \in Articles, o \in Outcomes : RequestQuotation(a, o)
    \/ \E d \in Deliveries : WebhookCallback(d[1], d[2], d[3])
    \/ \E a \in Articles, r \in {None, "changed"} : VoidAll(a, r)
    \/ Tick
    \/ \E pk \in 1..MaxQuots, t \in ExpiryChoices : SetExpiresAt(pk, t)

SpecExpiry == Init /\ [][NextExpiry]_vars

-----------------------------------------------------------------------------
(* Deliveries evaluated on the stored configuration. *)
Deliver(qs, d) == webhook_callback(qs, cfg, d[1], d[2], d[3], now)
DeliverAt(qs, d, t) == webhook_callback(qs, cfg, d[1], d[2], d[3], t)

QuoteIdOf(b) ==
    IF b.k = "json" /\ b.v.t = "obj" THEN DictGet(b.v, "quote_id") ELSE JAbsent

(* The status texts that read accepted, or declined, in any letter case. *)
AcceptTexts == {"accepted", "Accepted"}
DeclineTexts == {"declined", "DECLINED"}

PassingSignatures(j, b) ==
    { s \in Signatures(b) : VerifySignature(cfg[j], b, s) = "pass" }

TerminalStatuses == {ACCEPTED, DECLINED, ERROR, EXPIRED, VOIDED}

(* C1: a stored terminal status (accepted, declined, error, expired,       *)
(* voided) is never changed by a later operation.                           *)
C1_TerminalAbsorbing ==
    [][\A pk \in Pks(quots) :
          quots[pk].status \in TerminalStatuses
            => quots'[pk].status = quots[pk].status]_vars

(* C2: a status becomes accepted or declined only by a webhook delivery     *)
(* that got past verification, and only from presented.                     *)
C2_OnlyFromPresented ==
    [][\A pk \in Pks(quots') :
          ( /\ quots'[pk].status \in {ACCEPTED, DECLINED}
            /\ (pk \in Pks(quots) => quots[pk].status # quots'[pk].status) )
            => ( /\ last'.op = "webhook" /\ last'.code = 200 /\ last'.pk = pk
                 /\ pk \in Pks(quots)
                 /\ quots[pk].status = PRESENTED )]_vars

C4_RejectedChangesNothing ==
    \A d \in AllDeliveries :
      \E r \in {Deliver(quots, d)} : r.code = 400 => r.qs = quots

C4_Witness ==
    /\ last.op = "webhook" /\ last.code = 400
    /\ \E pk \in Pks(quots) : quots[pk].status = PRESENTED

(* C5: with a secret configured and a signature supplied, only the hex      *)
(* HMAC-SHA256 of the raw body under the secret gets past verification;     *)
(* every other supplied value is answered 400 and changes no quotation.     *)
C5_OnlyValidSignature ==
    \A d \in AllDeliveries :
      ( /\ d[1] \in Journals /\ cfg[d[1]].exists
        /\ cfg[d[1]].webhook_secret # ""
        /\ d[3] # SigAbsent
        /\ d[3] # hexdigest(cfg[d[1]].webhook_secret, d[2]) )
      => \E r \in {Deliver(quots, d)} : r.code = 400 /\ r.qs = quots

(* C6: with no secret configured, or with no signature header, the delivery *)
(* is processed exactly like a correctly signed one.                        *)
C6_UnsignedProcessedAsSigned ==
    \A j \in Journals : \A b \in Bodies :
      cfg[j].exists =>
        \E signed \in {Deliver(quots, <<j, b, hexdigest(cfg[j].webhook_secret, b)>>)} :
          /\ Deliver(quots, <<j, b, SigAbsent>>) = signed
          /\ b \in GoodBodies =>
                \A s \in {SigNonAscii, hexdigest(AttackerKey, b)} :
                  webhook_callback(quots, [cfg EXCEPT ![j].webhook_secret = ""],
                                   j, b, s, now) = signed

C6_Witness ==
    /\ last.op = "webhook" /\ last.code = 200 /\ last.prev = PRESENTED
    /\ ArticleJournal[quots[last.pk].article] = "J2"
    /\ quots[last.pk].status \in {ACCEPTED, DECLINED}

(* C7: a delivery for journal J and quote id Q changes at most one          *)
(* quotation, the most recently created one of J with that quote id that is *)
(* not voided, error or expired; with no such quotation it is rejected; a   *)
(* quotation of another journal is never changed.                           *)
C7_OnlyNewestMatching ==
    \A d \in AllDeliveries :
      LET matching == { pk \in Pks(quots) :
                          /\ ArticleJournal[quots[pk].article] = d[1]
                          /\ quots[pk].external_quote_id # None
                          /\ JStr(quots[pk].external_quote_id) = QuoteIdOf(d[2])
                          /\ quots[pk].status \notin {VOIDED, ERROR, EXPIRED} }
          newest == { pk \in matching :
                        \A o \in matching : quots[o].created <= quots[pk].created }
      IN  \E r \in {Deliver(quots, d)} :
            /\ \A pk \in Pks(quots) : pk \notin newest => r.qs[pk] = quots[pk]
            /\ Len(r.qs) = Len(quots)
            /\ matching = {} => r.code # 200
            /\ r.code = 200 => r.pk \in newest

C7_Witness ==
    /\ last.op = "webhook" /\ last.code = 200
    /\ \E o \in Pks(quots) :
          /\ o # last.pk
          /\ quots[o].external_quote_id = quots[last.pk].external_quote_id
          /\ quots[o].status \notin {VOIDED, ERROR, EXPIRED}
          /\ quots[o].updated < quots[last.pk].updated

(* C8: every delivery is answered 400 (validation failure) or 200; none     *)
(* ends in an unhandled error.                                              *)
C8_NoUnhandledError ==
    last.op = "webhook" => last.code \in {200, 400}

(* Equal in every field but webhook_received_at, updated, webhook_payload. *)
SameButWebhookFields(q1, q2) ==
    q2 = [q1 EXCEPT !.webhook_received_at = q2.webhook_received_at,
                    !.updated = q2.updated,
                    !.webhook_payload = q2.webhook_payload]

(* C9: delivering the same status a second time leaves the quotation as it  *)
(* was after the first delivery, except for webhook_received_at, updated    *)
(* and webhook_payload.                                                     *)
C9_SameStatusTwice ==
    \A pk \in Pks(quots) :
      \A texts \in {AcceptTexts, DeclineTexts} : \A st1 \in texts, st2 \in texts :
        LET j == ArticleJournal[quots[pk].article]
            q == JStr(quots[pk].external_quote_id)
        IN  ( /\ cfg[j].exists
              /\ quots[pk].external_quote_id # None
              /\ WebhookLookup(quots, j, q) = pk )
            => \A t2 \in now..MaxTime :
                 \E r1 \in {Deliver(quots, <<j, Body(q, JStr(st1)), SigAbsent>>)} :
                 \E r2 \in {DeliverAt(r1.qs, <<j, Body(q, JStr(st2)), SigAbsent>>, t2)} :
                    /\ r1.code = 200 /\ r2.code = 200 /\ r2.body = r1.body
                    /\ r2.qs[pk].status = r1.qs[pk].status
                    /\ SameButWebhookFields(r1.qs[pk], r2.qs[pk])
                    /\ \A o \in Pks(quots) : o # pk => r2.qs[o] = r1.qs[o]

C9_Witness ==
    /\ last.op = "webhook" /\ last.code = 200
    /\ last.prev = last.text
    /\ quots[last.pk].status = last.text

C11_SecondCallSameRecord ==
    \A a \in Articles : \A t2 \in now..MaxTime :
      \E r1 \in {get_or_create_quotation(quots, a, ArticleOwner[a], now)} :
      \E r2 \in {get_or_create_quotation(r1.qs, a, ArticleOwner[a], t2)} :
        ~is_expired(r1.qs[r1.pk], t2)
          => /\ r2.pk = r1.pk
             /\ ~r2.created
             /\ r2.qs = r1.qs
             /\ Len(r2.qs) <= Len(quots) + 1

C11_Witness ==
    /\ last.op = "request" /\ last.prev \in {PENDING, PRESENTED}
    /\ quots[last.pk].expires_at # NoTime
    /\ ~is_expired(quots[last.pk], now)

(* C12: in every state reached by request_quotation, webhook deliveries,   *)
(* void_all and staleness checks run one after the other, an article has   *)
(* at most one quotation in an active status, and request_quotation acts   *)
(* on the most recently created non-expired reusable quotation, creating   *)
(* one only when there is none.                                            *)
C12_OneActivePerArticle ==
    \A a \in Articles :
      LET active == { pk \in Pks(quots) : /\ quots[pk].article = a
                                          /\ quots[pk].status \in {PENDING, REQUESTED, PRESENTED} }
          usable == { pk \in Pks(quots) :
                        /\ quots[pk].article = a
                        /\ quots[pk].author = ArticleOwner[a]
                        /\ quots[pk].status \in {PENDING, REQUESTED, PRESENTED, ACCEPTED}
                        /\ ~(quots[pk].expires_at # NoTime /\ now > quots[pk].expires_at) }
      IN  /\ Cardinality(active) <= 1
          /\ \A o \in Outcomes :
               \E r \in {request_fee_quotation(quots, cfg, a, ArticleOwner[a], o, now)} :
                 IF usable = {} THEN r.created /\ r.pk = Len(quots) + 1
                 ELSE /\ ~r.created
                      /\ r.pk \in usable
                      /\ \A u \in usable : quots[u].created <= quots[r.pk].created

C12_Witness ==
    /\ last.op = "request" /\ last.prev = "" /\ last.pk = 2
    /\ quots[1].article = quots[2].article
    /\ quots[2].status \in {PENDING, PRESENTED}

(* Configurations a journal can hold: none, or a saved form. *)
AnyConfigs ==
    {NoConfig}
    \cup { Config(f, "s1") : f \in ConfigForms \cup {DefaultForm, WorkingForm, FallbackForm} }

(* The stored configurations with the one of the article's journal replaced. *)
WithConfig(a, config) == [cfg EXCEPT ![ArticleJournal[a]] = config]

(* C14: when the quotation request_quotation resolves is already presented *)
(* or accepted, the call returns it, issues no external call and changes   *)
(* no field of any quotation.                                              *)
C14_ShortCircuit ==
    \A a \in Articles :
      \E g \in {get_or_create_quotation(quots, a, ArticleOwner[a], now)} :
        g.qs[g.pk].status \in {PRESENTED, ACCEPTED}
          => \A o \in Outcomes, config \in AnyConfigs :
               \E r \in {request_fee_quotation(quots, WithConfig(a, config), a,
                                               ArticleOwner[a], o, now)} :
                 /\ r.qs = quots
                 /\ r.pk = g.pk
                 /\ ~r.created /\ ~r.called /\ ~r.raised

C14_Witness ==
    /\ last.op = "request" /\ last.code = 200
    /\ last.prev = PRESENTED /\ last.text = PRESENTED
    /\ \E pk \in Pks(quots) : quots[pk].status = ACCEPTED

(* C15: with no configuration, a disabled configuration or no API URL, a   *)
(* request_quotation call that does not return early ends with its         *)
(* quotation in error with a non-empty message, and issues no external     *)
(* call.                                                                    *)
C15_ConfigErrors ==
    \A a \in Articles :
      \E g \in {get_or_create_quotation(quots, a, ArticleOwner[a], now)} :
        g.qs[g.pk].status \notin {PRESENTED, ACCEPTED}
          => \A o \in Outcomes :
             \A config \in { x \in AnyConfigs :
                                \/ ~x.exists
                                \/ ~x.is_enabled
                                \/ x.api_url = "" } :
               \E r \in {request_fee_quotation(quots, WithConfig(a, config), a,
                                               ArticleOwner[a], o, now)} :
                 /\ r.pk = g.pk
                 /\ r.qs[r.pk].status = ERROR
                 /\ r.qs[r.pk].error_message \notin {None, ""}
                 /\ ~r.called /\ ~r.raised

C15_Witness ==
    /\ last.op = "request" /\ last.code = 400 /\ last.text = ERROR
    /\ ~cfg[ArticleJournal[quots[last.pk].article]].exists
    /\ quots[last.pk].error_message = "Fee quotation not configured for this journal."

TestResponses ==
    { [data |-> JObj([data |-> JObj([quote_id |-> JStr("Q1")])]),
       flat |-> FALSE, nested |-> TRUE, url |-> FALSE],
      [data |-> JObj([data |-> JObj([quote_id |-> JStr("Q2")]), url |-> JStr("https://u/2")]),
       flat |-> FALSE, nested |-> TRUE, url |-> TRUE],
      [data |-> JObj([quote_id |-> JStr("Q1"), url |-> JStr(""),
                      quote_url |-> JStr("https://u/1")]),
       flat |-> TRUE, nested |-> FALSE, url |-> TRUE],
      [data |-> JObj([quote_id |-> JStr("Q2")]),
       flat |-> TRUE, nested |-> FALSE, url |-> FALSE],
      [data |-> JObj([quote_id |-> JStr(""), url |-> JStr("https://u/5")]),
       flat |-> FALSE, nested |-> FALSE, url |-> TRUE],
      [data |-> JObj([quote_id |-> JNull, data |-> JObj([quote_id |-> JStr("")]),
                      url |-> JStr("https://u/6")]),
       flat |-> FALSE, nested |-> FALSE, url |-> TRUE],
      [data |-> JArr(1),
       flat |-> FALSE, nested |-> FALSE, url |-> FALSE],
      [data |-> JObj([quote_id |-> JNum(7), redirect_url |-> JStr("https://u/7")]),
       flat |-> TRUE, nested |-> FALSE, url |-> TRUE],
      [data |-> JObj([quote_id |-> JStr("Q1"), url |-> JNull,
                      quotation_url |-> JStr(""), quote_url |-> JStr("")]),
       flat |-> TRUE, nested |-> FALSE, url |-> FALSE],
      [data |-> JObj([data |-> JStr("text"), quote_id |-> JStr("Q1"),
                      quotation_url |-> JStr("https://u/q")]),
       flat |-> TRUE, nested |-> FALSE, url |-> TRUE] }

(* The final HTTP statuses requests.post can return without raising here   *)
(* or in raise_for_status: 2xx, and 3xx that is not a followed redirect.   *)
HttpStatuses == {200, 201, 300}

(* Configurations that pass the configuration checks. *)
CallingConfigs == { x \in AnyConfigs : ConfigError(x) = None }

(* C17: a request_quotation call that reaches the external call ends in    *)
(* presented exactly when the response is 2xx with a JSON body, a          *)
(* non-empty quote id is at the configured path and a URL is obtained      *)
(* (from the template when configured, else from the response fields);     *)
(* otherwise it ends in error.                                             *)
C17_PresentedIff ==
    \A a \in Articles :
      \E g \in {get_or_create_quotation(quots, a, ArticleOwner[a], now)} :
        g.qs[g.pk].status \notin {PRESENTED, ACCEPTED}
          => \A config \in CallingConfigs :
               /\ \A o \in {[k |-> "timeout"], [k |-> "request_exception"], [k |-> "not_json"]} :
                    \E r \in {request_fee_quotation(quots, WithConfig(a, config), a,
                                                    ArticleOwner[a], o, now)} :
                      r.called /\ ~r.raised /\ r.qs[r.pk].status = ERROR
               /\ \A e \in TestResponses, h \in HttpStatuses :
                    \E r \in {request_fee_quotation(quots, WithConfig(a, config), a,
                                                    ArticleOwner[a], JsonOutcome(h, e.data), now)} :
                      /\ r.called /\ ~r.raised
                      /\ r.qs[r.pk].status \in {PRESENTED, ERROR}
                      /\ r.qs[r.pk].status = PRESENTED
                           <=> ( /\ h \in 200..299
                                 /\ IF config.response_quote_id_field = "quote_id"
                                    THEN e.flat ELSE e.nested
                                 /\ (config.quotation_url_template # NoTemplate \/ e.url) )

(* C18: every quotation that is presented, accepted or declined holds a   *)
(* stored API response, a non-empty external quote id and a non-empty      *)
(* quotation URL.                                                          *)
C18_PresentedHasQuote ==
    \A pk \in Pks(quots) :
      quots[pk].status \in {PRESENTED, ACCEPTED, DECLINED}
        => /\ quots[pk].api_response # NoJson
           /\ Truthy(quots[pk].api_response)
           /\ quots[pk].external_quote_id \notin {None, ""}
           /\ quots[pk].quotation_url \notin {None, ""}

C18_Witness ==
    /\ \E pk \in Pks(quots) : quots[pk].status = DECLINED
    /\ \E pk \in Pks(quots) : quots[pk].status = ACCEPTED
                               /\ quots[pk].quotation_url = "https://u/1"

(* C19: on success the stored quote id is the text of the value at the     *)
(* configured dot-path and, with a template, the stored URL is the         *)
(* template with {{quote_id}} replaced by it: path data.quote_id, response *)
(* {data: {quote_id: Q1}}, template https://x/{{quote_id}} give Q1,        *)
(* https://x/Q1 and presented.                                             *)
C19_PathAndTemplate ==
    \A a \in Articles :
      \E g \in {get_or_create_quotation(quots, a, ArticleOwner[a], now)} :
        g.qs[g.pk].status \notin {PRESENTED, ACCEPTED}
          => \A case \in { [path |-> "data.quote_id",
                             data |-> JObj([data |-> JObj([quote_id |-> JStr("Q1")])]),
                             id |-> "Q1", url |-> "https://x/Q1"],
                            [path |-> "data.quote_id",
                             data |-> JObj([data |-> JObj([quote_id |-> JStr("Q2")]),
                                            url |-> JStr("https://u/2")]),
                             id |-> "Q2", url |-> "https://x/Q2"],
                            [path |-> "quote_id",
                             data |-> JObj([quote_id |-> JNum(7),
                                            data |-> JObj([quote_id |-> JStr("Q1")])]),
                             id |-> "7", url |-> "https://x/7"] } :
               \E r \in {request_fee_quotation(
                             quots,
                             WithConfig(a, Config(Form(TRUE, "https://api",
                                                       <<"https://x/", QUOTE_ID_PLACEHOLDER>>,
                                                       case.path, TRUE, "all", {}), "s1")),
                             a, ArticleOwner[a], JsonOutcome(200, case.data), now)} :
                 /\ r.qs[r.pk].status = PRESENTED
                 /\ r.qs[r.pk].external_quote_id = case.id
                 /\ r.qs[r.pk].quotation_url = case.url
                 /\ r.qs[r.pk].api_response = case.data

C19_Witness ==
    /\ last.op = "request" /\ last.code = 200 /\ last.text = PRESENTED
    /\ cfg[ArticleJournal[quots[last.pk].article]].response_quote_id_field = "data.quote_id"
    /\ quots[last.pk].api_response = JObj([data |-> JObj([quote_id |-> JStr("Q1")])])
    /\ quots[last.pk].external_quote_id = "Q1"
    /\ quots[last.pk].quotation_url = "https://x/Q1"

(* C13: when two request_quotation calls for one (article, author) pair   *)
(* interleave, neither raises because of the other: the query and the      *)
(* insert never raise, each call returns a quotation whatever the other    *)
(* has written meanwhile, two records for the pair may result, and later   *)
(* requests, webhooks and voiding complete on such a state.                *)
C13_RaceTolerated ==
    /\ \A a \in Articles :
         /\ \A f \in FindExisting(quots, a, ArticleOwner[a]) :
              /\ ~f.raised
              /\ f.pk # 0 => /\ quots[f.pk].article = a
                             /\ quots[f.pk].status \in ReusableStatuses
         /\ ~InsertQuotation(quots, a, ArticleOwner[a], now).raised
         /\ \A o \in Outcomes :
              \E r \in {request_fee_quotation(quots, cfg, a, ArticleOwner[a], o, now)} :
                /\ r.qs[r.pk].article = a
                /\ r.raised => o.k = "headers_not_object"
                /\ ~r.raised => r.qs[r.pk].status \in {PRESENTED, ACCEPTED, ERROR}
         /\ \E v \in {void_article_quotations(quots, a, "changed", now)} :
              \A pk \in Pks(quots) :
                quots[pk].article = a => v.qs[pk].status \notin ActiveStatuses
    /\ \A d \in ConcurrentDeliveries :
         webhook_callback(quots, cfg, d[1], d[2], d[3], now).code \in {200, 400}
    /\ \A w \in Callers :
         /\ calls[w].pc = "resolved" =>
              /\ calls[w].pk \in Pks(quots)
              /\ quots[calls[w].pk].article = calls[w].article
              /\ \A o \in Outcomes :
                   \E r \in {CompleteCall(quots, cfg, calls[w], o, now)} :
                     /\ r.raised => o.k = "headers_not_object"
                     /\ ~r.raised => r.row.status \in {PRESENTED, ACCEPTED, ERROR}
                     /\ r.row.article = calls[w].article
                     /\ Len(r.qs) = Len(quots)
                     /\ \A pk \in Pks(quots) : pk # calls[w].pk => r.qs[pk] = quots[pk]
    /\ (last.op = "request" /\ last.code = 500) => last.pk # 0

(* Both workers have created a record for the same pair, both calls have   *)
(* returned, and a later request has completed on that state.              *)
C13_Witness ==
    /\ Len(quots) = 2
    /\ quots[1].article = quots[2].article
    /\ quots[1].author = quots[2].author
    /\ quots[1].created = quots[2].created
    /\ quots[1].status = PRESENTED /\ quots[2].status = PRESENTED
    /\ \A w \in Callers : calls[w].pc = "idle"
    /\ last.op = "request" /\ last.code = 200 /\ last.prev = PRESENTED

(* C21: void_all(article, reason) sets to voided exactly the quotations   *)
(* of the article that are pending, requested or presented, leaves every   *)
(* other quotation unchanged, and returns the number it voided.            *)
C21_VoidsExactlyActive ==
    \A a \in Articles : \A reason \in {None, "", "changed"} :
      \E r \in {void_article_quotations(quots, a, reason, now)} :
        /\ Len(r.qs) = Len(quots)
        /\ r.count = Cardinality({pk \in Pks(quots) :
                          /\ quots[pk].article = a
                          /\ quots[pk].status \in {PENDING, REQUESTED, PRESENTED}})
        /\ \A pk \in Pks(quots) :
             IF quots[pk].article = a /\ quots[pk].status \in {PENDING, REQUESTED, PRESENTED}
             THEN r.qs[pk] = [quots[pk] EXCEPT
                                !.status = VOIDED, !.updated = now,
                                !.error_message = IF reason \in {None, ""} THEN @ ELSE reason]
             ELSE r.qs[pk] = quots[pk]

(* The article had pending, presented, accepted and error; the call voided *)
(* the first two and returned 2.                                           *)
C21_Witness ==
    /\ last.op = "void_all" /\ last.code = 2
    /\ Len(quots) = 4
    /\ \A pk \in Pks(quots) : quots[pk].article = "a1"
    /\ quots[1].status = VOIDED /\ quots[1].external_quote_id = None
    /\ quots[2].status = VOIDED /\ quots[2].external_quote_id = "Q1"
    /\ quots[1].error_message = "changed" /\ quots[2].error_message = "changed"
    /\ quots[3].status = ACCEPTED /\ quots[3].updated = 0
    /\ quots[4].status = ERROR /\ quots[4].updated = 0

(* C22: when the staleness check runs for an article modified after the   *)
(* creation of its current active quotation (pending, requested or         *)
(* presented), that quotation is voided with the stored reason and the     *)
(* page is rendered as without a quotation; otherwise no quotation is      *)
(* changed.                                                                *)
C22_StaleVoided ==
    \A a \in Articles :
      is_quotation_required_for_article(cfg, a) =>
        \E r \in {inject_fee_quotation_ui(quots, cfg, a, modified[a], now)} :
          \E current \in {FirstByCreatedDesc(quots,
                             {pk \in Pks(quots) :
                                /\ quots[pk].article = a
                                /\ quots[pk].status \in {PENDING, REQUESTED, PRESENTED}})} :
            IF current # 0 /\ modified[a] > quots[current].created
            THEN /\ r.qs[current].status = VOIDED
                 /\ r.qs[current].error_message = STALE_REASON
                 /\ r.shown = 0
            ELSE r.qs = quots

C24_CheckAccepted ==
    \A a \in Articles :
      check_quotation_accepted(quots, cfg, a)
        <=> \/ ~is_quotation_required_for_article(cfg, a)
            \/ ~cfg[ArticleJournal[a]].require_acceptance
            \/ \E pk \in Pks(quots) : quots[pk].article = a /\ quots[pk].status = ACCEPTED

(* The only accepted quotation of a1 was moved to declined by a webhook    *)
(* and check_accepted is false again.                                      *)
C24_Witness ==
    /\ last.op = "webhook" /\ last.prev = ACCEPTED /\ last.text = DECLINED
    /\ quots[last.pk].article = "a1"
    /\ is_quotation_required_for_article(cfg, "a1")
    /\ cfg["J1"].require_acceptance
    /\ ~check_quotation_accepted(quots, cfg, "a1")

(* C25: no operation of the plugin deletes a quotation: every step keeps    *)
(* every record with its article, author and creation time, and a record   *)
(* that appears is pending.                                                *)
C25_NeverDeleted ==
    [][ /\ Len(quots') >= Len(quots)
        /\ \A pk \in Pks(quots) :
             /\ quots'[pk].article = quots[pk].article
             /\ quots'[pk].author = quots[pk].author
             /\ quots'[pk].created = quots[pk].created
        /\ \A pk \in Pks(quots') \ Pks(quots) :
             quots'[pk] = NewQuotation(quots'[pk].article, quots'[pk].author, now) ]_vars

(* Two records of a1 are kept after one was voided and the other declined, *)
(* the configuration was saved and the status was queried.                 *)
C25_Witness ==
    /\ Len(quots) = 2
    /\ quots[1].article = "a1" /\ quots[2].article = "a1"
    /\ {quots[1].status, quots[2].status} = {VOIDED, DECLINED}
    /\ cfg["J1"].section_mode = "exclude"
    /\ last.op = "status" /\ last.code = 200

(* The text the renderer's contract gives: one pass over the template in   *)
(* which every placeholder of a context key is replaced by the text of its *)
(* value (string form, empty for None, JSON for a list; a quoted           *)
(* placeholder of a list loses its quotes) and everything else is kept.    *)
EmittedFor(value) ==
    IF value.t = "list" THEN JsonDumps(value)
    ELSE IF value = JNull THEN <<>>
    ELSE StrOf(value)

RECURSIVE ContractFrom(_, _, _)
ContractFrom(template, context, i) ==
    IF i > Len(template) THEN <<>>
    ELSE IF \E j \in 1..Len(context) :
               /\ context[j][2].t = "list"
               /\ StartsWithAt(template, Quoted(Placeholder(context[j][1])), i)
    THEN LET j == CHOOSE j \in 1..Len(context) :
                    StartsWithAt(template, Quoted(Placeholder(context[j][1])), i)
         IN  EmittedFor(context[j][2])
               \o ContractFrom(template, context, i + Len(Placeholder(context[j][1])) + 2)
    ELSE IF \E j \in 1..Len(context) :
               StartsWithAt(template, Placeholder(context[j][1]), i)
    THEN LET j == CHOOSE j \in 1..Len(context) :
                    StartsWithAt(template, Placeholder(context[j][1]), i)
         IN  EmittedFor(context[j][2])
               \o ContractFrom(template, context, i + Len(Placeholder(context[j][1])))
    ELSE <<template[i]>> \o ContractFrom(template, context, i + 1)

ContractRender(template, context) == ContractFrom(template, context, 1)

HasBraces(value) ==
    IF value.t = "list"
    THEN \E k \in 1..Len(value.items) :
           value.items[k].t = "str" /\ Contains(value.items[k].s, <<"{">>)
    ELSE value.t = "str" /\ Contains(value.s, <<"{">>)

PlainContext(context) == \A j \in 1..Len(context) : ~HasBraces(context[j][2])

C27_StructuredEveryOccurrence ==
    (/\ rnd.done
     /\ PlainContext(rnd.context)
     /\ ~Contains(rnd.template, Placeholder("article_id"))
     /\ ~Contains(rnd.template, Placeholder("article_title")))
      => /\ rnd.out = ContractRender(rnd.template, rnd.context)
         /\ ~Contains(rnd.out, Placeholder("authors"))

(* C28: substituting one key never affects another: the rendered text is    *)
(* the one-pass substitution also when a value contains the placeholder of *)
(* another key, it is the same for either order of the keys, and           *)
(* placeholders of unknown names are kept.                                 *)
C28_KeysIndependent ==
    (/\ rnd.done
     /\ \A j \in 1..Len(rnd.context) :
          rnd.context[j][2] \notin {JNum(0), VBool(FALSE)}
     /\ ~(/\ Contains(rnd.template, Quoted(Placeholder("authors")))
          /\ Contains(StrReplace(rnd.template, Quoted(Placeholder("authors")), <<>>),
                      Placeholder("authors"))))
      => /\ rnd.out = ContractRender(rnd.template, rnd.context)
         /\ rnd.out = render_template(rnd.template, Reverse(rnd.context))

(* C29: in the authors array of an article with at least one author        *)
(* exactly one entry has primary "true": the entry of the correspondence   *)
(* author, or, when none is designated, the first author in order.         *)
C29_ExactlyOnePrimary ==
    art.done =>
      /\ Len(art.built) = Cardinality(art.frozen)
      /\ Cardinality({i \in 1..Len(art.built) : art.built[i].primary = "true"}) = 1
      /\ \A i \in 1..Len(art.built) : art.built[i].primary \in {"true", "false"}
      /\ art.correspondence_author = None => art.built[1].primary = "true"

(* C30: a quotation that void_all or the staleness check voided while a   *)
(* request_quotation call on it was waiting for the API stays voided when  *)
(* that call completes.                                                    *)
C30_VoidedSurvivesCompletion ==
    (last.op = "request" /\ last.pk # 0 /\ last.prev = VOIDED)
      => quots[last.pk].status = VOIDED

(* C31: once a quotation has an external quote id, no later step replaces  *)
(* it with another value, in any interleaving of request_quotation calls   *)
(* for the pair.                                                           *)
C31_QuoteIdKept ==
    [][ \A pk \in Pks(quots) :
          quots[pk].external_quote_id \notin {None, ""}
            => quots'[pk].external_quote_id = quots[pk].external_quote_id ]_vars

(* C32: after any sequence of configuration saves and secret              *)
(* regenerations every stored configuration has a non-empty webhook        *)
(* secret, so a delivery with a signature is always verified against it.   *)
C32_SecretNeverEmpty ==
    \A j \in Journals :
      cfg[j].exists =>
        /\ cfg[j].webhook_secret # ""
        /\ \A d \in AllDeliveries :
             (d[1] = j /\ SigTruthy(d[3]))
               => (VerifySignature(cfg[j], d[2], d[3]) = "pass"
                     <=> d[3] = hexdigest(cfg[j].webhook_secret, d[2]))

(* J2 got its configuration from the manager page and its secret from a    *)
(* regeneration.                                                           *)
C32_Witness ==
    /\ last.op = "regenerate"
    /\ cfg["J2"].exists /\ cfg["J2"].section_mode = "exclude"
    /\ cfg["J2"].webhook_secret = "s2"
    /\ cfg["J1"].webhook_secret = "s2"

(* C33: no operation stores the status requested or expired: every         *)
(* quotation is pending, presented, accepted, declined, error or voided,   *)
(* and a quotation past its expires_at keeps its stored row when           *)
(* get_or_create skips it.                                                 *)
C33_NoRequestedNoExpired ==
    /\ \A pk \in Pks(quots) :
         quots[pk].status \in {PENDING, PRESENTED, ACCEPTED, DECLINED, ERROR, VOIDED}
    /\ \A a \in Articles :
         /\ \E g \in {get_or_create_quotation(quots, a, ArticleOwner[a], now)} :
              \A pk \in Pks(quots) : g.qs[pk] = quots[pk]
         /\ \A o \in Outcomes :
              \E r \in {request_fee_quotation(quots, cfg, a, ArticleOwner[a], o, now)} :
                \A pk \in Pks(quots) :
                  is_expired(quots[pk], now) => r.qs[pk] = quots[pk]

(* A presented quotation past its expiry was skipped by a request that     *)
(* created a new record, and is still presented.                           *)
C33_Witness ==
    /\ last.op = "request" /\ last.prev = "" /\ last.pk = 2
    /\ quots[1].article = quots[2].article
    /\ quots[1].status = PRESENTED
    /\ quots[1].expires_at # NoTime /\ now > quots[1].expires_at

(* C34: whenever the status endpoint reports can_proceed true for a       *)
(* quotation (it is accepted, or the configuration does not require        *)
(* acceptance), check_accepted of its article is true in the same state.   *)
C34_CanProceedImpliesAccepted ==
    \A pk \in Pks(quots) : \A user \in {"u1", "u2"} :
      \E r \in {check_quotation_status(quots, cfg, pk, user)} :
        /\ r.code = 200 <=> quots[pk].author = user
        /\ r.code = 200 =>
             /\ r.can_proceed
                  <=> \/ quots[pk].status = ACCEPTED
                      \/ /\ cfg[ArticleJournal[quots[pk].article]].exists
                         /\ ~cfg[ArticleJournal[quots[pk].article]].require_acceptance
             /\ r.can_proceed
                  => check_quotation_accepted(quots, cfg, quots[pk].article)

(* The author polled a presented quotation of a journal that is enabled    *)
(* and does not require acceptance: it may proceed, and so may the article. *)
C34_Witness ==
    /\ last.op = "status" /\ last.code = 200 /\ last.text = PRESENTED
    /\ quots[last.pk].status = PRESENTED
    /\ cfg["J1"].is_enabled /\ ~cfg["J1"].require_acceptance
    /\ is_quotation_required_for_article(cfg, quots[last.pk].article)
    /\ check_quotation_status(quots, cfg, last.pk, "u1").can_proceed
    /\ check_quotation_accepted(quots, cfg, quots[last.pk].article)

(* C35: in every reachable state, with request_quotation calls and        *)
(* webhook deliveries interleaved on the same record, a quotation whose    *)
(* status is accepted or declined has a webhook receipt time and a stored  *)
(* webhook payload; and a quotation has either of them only from a         *)
(* successful webhook delivery that targeted it: a new record has neither  *)
(* and no other step gives a record one.                                   *)
C35_WebhookFields ==
    /\ [](\A pk \in Pks(quots) :
            /\ quots[pk].status \in {ACCEPTED, DECLINED}
                  => /\ quots[pk].webhook_received_at # NoTime
                     /\ quots[pk].webhook_payload # NoJson
            /\ quots[pk].webhook_received_at # NoTime
                  => quots[pk].webhook_received_at \in 0..now)
    /\ [][ \A pk \in Pks(quots') :
             ( /\ \/ quots'[pk].webhook_received_at # NoTime
                  \/ quots'[pk].webhook_payload # NoJson
               /\ \/ pk \notin Pks(quots)
                  \/ /\ quots[pk].webhook_received_at = NoTime
                     /\ quots[pk].webhook_payload = NoJson )
               => /\ last'.op = "webhook" /\ last'.code = 200 /\ last'.pk = pk
                  /\ pk \in Pks(quots)
                  /\ quots'[pk].status \in {ACCEPTED, DECLINED} ]_vars

(* A delivery has just declined the second record while a call that read  *)
(* it before is still under way, and the first record of the same article, *)
(* still pending and so without a quote id a delivery could name, has      *)
(* neither field.                                                          *)
C35_Witness ==
    /\ last.op = "webhook" /\ last.code = 200 /\ last.pk = 2
    /\ Len(quots) = 2 /\ quots[2].status = DECLINED
    /\ quots[2].webhook_received_at = now /\ quots[2].webhook_payload # NoJson
    /\ \E w \in Callers : calls[w].pc = "resolved" /\ calls[w].pk = 2
    /\ quots[1].article = quots[2].article /\ quots[1].status = PENDING
    /\ quots[1].webhook_received_at = NoTime /\ quots[1].webhook_payload = NoJson

====
